---- MODULE Spec2Model ----
(***************************************************************************)
(* Model of the review-mining backend (backend/app): the job lifecycle of  *)
(* routes.py (upload, analysis pipeline, query, rerun) over the SQLite     *)
(* store of db.py, with the record normalizer of parsing.py and the theme  *)
(* extraction, aggregation and brief synthesis of llm.py.                  *)
(*                                                                         *)
(* The store is the SQLite file reviews.db, shared by every worker that    *)
(* serves requests.  A step of the model is the code of a handler up to    *)
(* and including its next commit: what another connection can observe      *)
(* changes only at a commit.                                               *)
(***************************************************************************)
EXTENDS Integers, Sequences, FiniteSets, TLC

\* ------------------------------------------------------------------ bounds
MaxWorkers == 2             \* requests that can be in flight at once
MaxRequests == 2            \* requests received during a behaviour
\* reviews per call of the hosted model: 35 in routes.py, scaled down so
\* that a file of CHUNK_SIZE + 1 rows already spans two chunks
CHUNK_SIZE == 2
MaxTicks == 1               \* days that pass during a behaviour
MaxRating == 12             \* largest rating number in a rating string
MaxReviews == 2             \* reviews in a chunk or record set handled on its own
MaxMentions == 3            \* mentions in a collection aggregated on its own

\* ------------------------------------------------------- program constants
MAX_FILE_SIZE == 10 * 1024 * 1024
MAX_ROWS == 10000
MinContentLen == 20
ContentCap == 800
TopN == 3
MaxQuotes == 2
QuoteScan == 10
WindowDays == 60
BodyMax == 5000
MarkerLen == 3
SnippetLen == 200

\* absent values (Python None / SQL NULL), one per type
NoText == [text |-> 0, len |-> 0]   \* a text (identity, length): None or ""
NoTitle == ""               \* review_title None
NoId == 0                   \* review_id None
NoDate == 0                 \* review_date None
NoStr == <<>>               \* a raw string None or ""
\* a job is created by an upload: no more jobs than requests
JobIds == 1..MaxRequests
Workers == 1..MaxWorkers
Today0 == 100

Min(a, b) == IF a < b THEN a ELSE b
Max(a, b) == IF a > b THEN a ELSE b

\* ------------------------------------------------------------- parsing.py
Digits == {"0", "1", "2", "3", "4", "5", "6", "7", "8", "9"}
DigitVal(c) ==
    CASE c = "0" -> 0 [] c = "1" -> 1 [] c = "2" -> 2 [] c = "3" -> 3
      [] c = "4" -> 4 [] c = "5" -> 5 [] c = "6" -> 6 [] c = "7" -> 7
      [] c = "8" -> 8 [] c = "9" -> 9

\* value of the maximal run of digits of s that starts at position i
RECURSIVE DigitRun(_, _, _)
DigitRun(s, i, acc) ==
    IF i > Len(s) \/ s[i] \notin Digits THEN acc
    ELSE DigitRun(s, i + 1, acc * 10 + DigitVal(s[i]))

\* parse_rating without the clamp to 1..5
parse_rating_unclamped(rating_str) ==
    IF rating_str = NoStr THEN 3
    ELSE IF \E i \in 1..Len(rating_str) : rating_str[i] \in Digits
         THEN LET first == CHOOSE i \in 1..Len(rating_str) :
                               /\ rating_str[i] \in Digits
                               /\ \A k \in 1..(i - 1) : rating_str[k] \notin Digits
              IN  DigitRun(rating_str, first, 0)
         ELSE 3

\* parse_rating: a rating string is a sequence of characters (NoStr: absent)
parse_rating(rating_str) ==
    IF rating_str = NoStr THEN 3
    ELSE IF \E i \in 1..Len(rating_str) : rating_str[i] \in Digits
         THEN LET first == CHOOSE i \in 1..Len(rating_str) :
                               /\ rating_str[i] \in Digits
                               /\ \A k \in 1..(i - 1) : rating_str[k] \notin Digits
              IN  Max(1, Min(5, DigitRun(rating_str, first, 0)))
         ELSE 3

\* parse_date: a date string is absent (present = FALSE), a phrase
\* "... on <Month> <d>, <y>" (on = TRUE) whose date part strptime accepts
\* (valid = TRUE) or rejects, or other text
parse_date(date_str) ==
    IF ~date_str.present THEN NoDate
    ELSE IF date_str.on /\ date_str.valid THEN date_str.day
    ELSE NoDate

\* clean_text on a text given by its identity and its length after strip
clean_text(text, max_length) ==
    IF text.len = 0 THEN NoText
    ELSE IF text.len > max_length
         THEN [text |-> text.text, len |-> max_length + MarkerLen]
    ELSE text

\* ------------------------------------------------------------ input files
RatingStrs ==
    << <<"5", ".", "0", " ", "o", "u", "t">>,
       <<"1", " ", "o", "u", "t">>,
       <<"4">>,
       NoStr,
       <<"1", "2">>,
       <<"s", "t", "a", "r">>,
       <<"0">>,
       <<"2", ".", "5">> >>

DateStrs ==
    << [present |-> TRUE, on |-> TRUE, valid |-> TRUE, day |-> Today0 - WindowDays],
       [present |-> FALSE, on |-> FALSE, valid |-> FALSE, day |-> 0],
       [present |-> TRUE, on |-> TRUE, valid |-> TRUE, day |-> Today0],
       [present |-> TRUE, on |-> FALSE, valid |-> FALSE, day |-> 0],
       [present |-> TRUE, on |-> TRUE, valid |-> TRUE, day |-> Today0 - WindowDays - 1],
       [present |-> TRUE, on |-> TRUE, valid |-> FALSE, day |-> 0] >>

ContentLens == <<40, 6000, 5, 120, 0>>
Titles == <<"Great", NoTitle, "Meh", "Great">>

\* the k-th data row of the CSV text of file f, by normalized column name
RawRow(f, k) ==
    [review_id |-> IF (k + f.gen) % 2 = 0 THEN NoId ELSE k,
     review_rating |-> RatingStrs[((k + f.gen) % Len(RatingStrs)) + 1],
     review_date |-> DateStrs[((k + f.gen) % Len(DateStrs)) + 1],
     review_content |-> [text |-> k,
                         len |-> ContentLens[((k + f.gen) % Len(ContentLens)) + 1]],
     review_title |-> Titles[((k + f.gen) % Len(Titles)) + 1]]

\* the ReviewInput built from one row (parse_csv, loop body)
ReviewOfRow(row) ==
    [review_id |-> row.review_id,
     review_title |-> row.review_title,
     review_content |-> clean_text(row.review_content, BodyMax),
     rating |-> parse_rating(row.review_rating),
     review_date |-> parse_date(row.review_date)]

\* parse_csv: the reviews, or the exception it raises.  Decoding never
\* fails: latin-1 accepts every byte sequence that utf-8 rejects.
parse_csv(f, max_rows) ==
    LET encoding == IF f.utf8 THEN "utf-8" ELSE "latin-1"
    IN  IF f.csv_error THEN [raised |-> "csv.Error", reviews |-> <<>>]
        ELSE IF f.rows > max_rows THEN [raised |-> "ValueError", reviews |-> <<>>]
        ELSE IF f.rows = 0 THEN [raised |-> "ValueError", reviews |-> <<>>]
        ELSE [raised |-> "",
              reviews |-> [k \in 1..f.rows |-> ReviewOfRow(RawRow(f, k))]]

Files ==
    { [size |-> MAX_FILE_SIZE + 1, filename |-> "reviews.csv", utf8 |-> TRUE,
       csv_error |-> FALSE, rows |-> 1, gen |-> 0],
      [size |-> 4096, filename |-> "reviews.csv", utf8 |-> TRUE,
       csv_error |-> FALSE, rows |-> 0, gen |-> 0],
      [size |-> MAX_FILE_SIZE, filename |-> "reviews.csv", utf8 |-> TRUE,
       csv_error |-> FALSE, rows |-> MAX_ROWS + 1, gen |-> 0],
      [size |-> 4096, filename |-> "reviews.csv", utf8 |-> FALSE,
       csv_error |-> TRUE, rows |-> 2, gen |-> 1],
      [size |-> 4096, filename |-> "", utf8 |-> TRUE,
       csv_error |-> FALSE, rows |-> CHUNK_SIZE + 1, gen |-> 0] }

\* ----------------------------------------------------------------- llm.py
Take(s, n) == SubSeq(s, 1, Min(n, Len(s)))

lower(c) ==
    CASE c = "A" -> "a" [] c = "B" -> "b" [] c = "F" -> "f" [] OTHER -> c
IsSpace(c) == c = " "
IsWord(c) == c \in {"a", "b", "f", "i", "t", "_"} \cup Digits

\* str.lower() and str.strip() on a sequence of characters
LowerStr(s) == [i \in 1..Len(s) |-> lower(s[i])]
StripStr(s) ==
    IF \A i \in 1..Len(s) : IsSpace(s[i]) THEN <<>>
    ELSE LET lo == CHOOSE i \in 1..Len(s) :
                       ~IsSpace(s[i]) /\ \A k \in 1..(i - 1) : IsSpace(s[k])
             hi == CHOOSE i \in 1..Len(s) :
                       ~IsSpace(s[i]) /\ \A k \in (i + 1)..Len(s) : IsSpace(s[k])
         IN  SubSeq(s, lo, hi)

\* re.sub(r'\s+', ' ', s): every run of whitespace becomes one space
RECURSIVE CollapseSpaces(_)
CollapseSpaces(s) ==
    IF s = <<>> THEN <<>>
    ELSE IF Len(s) >= 2 /\ IsSpace(s[1]) /\ IsSpace(s[2])
         THEN CollapseSpaces(Tail(s))
    ELSE <<s[1]>> \o CollapseSpaces(Tail(s))

KeepWordOrSpace(c) == IsWord(c) \/ IsSpace(c)

normalize_theme_label(label) ==
    CollapseSpaces(SelectSeq(StripStr(LowerStr(label)), KeepWordOrSpace))

\* the polarity a mention is grouped under
GroupPolarity(m) == IF m.polarity \in {"love", "improve"} THEN m.polarity ELSE "love"

\* the normalized label of every mention, computed once per mention as in
\* the grouping loop
NormalizedLabels(mentions) ==
    [i \in 1..Len(mentions) |-> normalize_theme_label(mentions[i].theme_label)]

\* the non-empty normalized labels in order of first appearance (the
\* insertion order of the dict theme_groups)
RECURSIVE GroupLabels(_, _)
GroupLabels(normalized, acc) ==
    IF normalized = <<>> THEN acc
    ELSE LET l == Head(normalized)
         IN  IF l = <<>> \/ \E i \in 1..Len(acc) : acc[i] = l
             THEN GroupLabels(Tail(normalized), acc)
             ELSE GroupLabels(Tail(normalized), Append(acc, l))

\* theme_groups[label][polarity]: the mentions of the group, in order
GroupOf(mentions, normalized, label, polarity) ==
    LET InGroup(i) == /\ normalized[i] = label
                      /\ GroupPolarity(mentions[i]) = polarity
        idx == SelectSeq([i \in 1..Len(mentions) |-> i], InGroup)
    IN  [k \in 1..Len(idx) |-> mentions[idx[k]]]

\* the quotes of one group: first mention of each distinct title among the
\* first QuoteScan mentions, until MaxQuotes quotes are collected
\* the quotes of one group taken without the test on seen titles
RECURSIVE SelectQuotesRepeating(_, _)
SelectQuotesRepeating(mentions_list, quotes) ==
    IF mentions_list = <<>> \/ Len(quotes) >= MaxQuotes THEN quotes
    ELSE LET m == Head(mentions_list)
         IN  IF m.review_title # NoTitle
             THEN SelectQuotesRepeating(Tail(mentions_list),
                      Append(quotes, [title |-> m.review_title,
                                      snippet |-> m.review_snippet]))
             ELSE SelectQuotesRepeating(Tail(mentions_list), quotes)

RECURSIVE SelectQuotes(_, _)
SelectQuotes(mentions_list, quotes) ==
    IF mentions_list = <<>> \/ Len(quotes) >= MaxQuotes THEN quotes
    ELSE LET m == Head(mentions_list)
         IN  IF m.review_title # NoTitle
                  /\ \A i \in 1..Len(quotes) : quotes[i].title # m.review_title
             THEN SelectQuotes(Tail(mentions_list),
                      Append(quotes, [title |-> m.review_title,
                                      snippet |-> m.review_snippet]))
             ELSE SelectQuotes(Tail(mentions_list), quotes)

ThemeSummaryOf(mentions_list, label, polarity) ==
    [theme_label |-> label,
     count |-> Len(mentions_list),
     polarity |-> polarity,
     quotes |-> SelectQuotes(Take(mentions_list, QuoteScan), <<>>)]

\* the summaries of one polarity in group order, before sorting
RECURSIVE PolarityThemes(_, _, _, _)
PolarityThemes(mentions, normalized, labels, polarity) ==
    IF labels = <<>> THEN <<>>
    ELSE LET rest == PolarityThemes(mentions, normalized, Tail(labels), polarity)
             mentions_list == GroupOf(mentions, normalized, Head(labels), polarity)
         IN  IF mentions_list = <<>> THEN rest
             ELSE <<ThemeSummaryOf(mentions_list, Head(labels), polarity)>> \o rest

\* list.sort(key=count, reverse=True): stable, descending by count
\* the insertion that puts a summary ahead of those with the same count
RECURSIVE InsertByCountAheadOfTies(_, _)
InsertByCountAheadOfTies(sorted, t) ==
    IF sorted = <<>> THEN <<t>>
    ELSE IF Head(sorted).count > t.count
         THEN <<Head(sorted)>> \o InsertByCountAheadOfTies(Tail(sorted), t)
    ELSE <<t>> \o sorted

RECURSIVE InsertByCount(_, _)
InsertByCount(sorted, t) ==
    IF sorted = <<>> THEN <<t>>
    ELSE IF Head(sorted).count >= t.count
         THEN <<Head(sorted)>> \o InsertByCount(Tail(sorted), t)
    ELSE <<t>> \o sorted

\* the summaries left in the order of the grouping scan
SortByCountSkipped(themes, acc) == themes

RECURSIVE SortByCount(_, _)
SortByCount(themes, acc) ==
    IF themes = <<>> THEN acc
    ELSE SortByCount(Tail(themes), InsertByCount(acc, Head(themes)))

aggregate_themes(mentions, top_n) ==
    LET normalized == NormalizedLabels(mentions)
        labels == GroupLabels(normalized, <<>>)
        love == PolarityThemes(mentions, normalized, labels, "love")
        improve == PolarityThemes(mentions, normalized, labels, "improve")
    IN  [love |-> Take(SortByCount(love, <<>>), top_n),
         improve |-> Take(SortByCount(improve, <<>>), top_n)]

\* the review data sent to the model: reviews whose truncated body is long
\* enough, each with its own id or one generated from its position
RECURSIVE ReviewData(_, _, _)
ReviewData(reviews, chunk_id, acc) ==
    IF reviews = <<>> THEN acc
    ELSE LET review == Head(reviews)
             content == [text |-> review.review_content.text,
                         len |-> Min(review.review_content.len, ContentCap)]
         IN  IF content.len < MinContentLen
             THEN ReviewData(Tail(reviews), chunk_id, acc)
             ELSE ReviewData(Tail(reviews), chunk_id,
                      Append(acc,
                          [id |-> IF review.review_id # NoId
                                  THEN [given |-> TRUE, a |-> review.review_id, b |-> 0]
                                  ELSE [given |-> FALSE, a |-> chunk_id, b |-> Len(acc)],
                           title |-> review.review_title,
                           content |-> content,
                           rating |-> review.rating]))

\* extract_snippet_for_theme: a part of the review body of at most
\* snippet_length characters
extract_snippet_for_theme(content, theme_label, snippet_length) ==
    [src |-> "review", text |-> content.text, len |-> Min(content.len, snippet_length)]

\* what the hosted model answers for one review it was sent
ModelThemes(d) ==
    IF d.rating >= 4
    THEN << [theme_label |-> <<"F", "i", "t", "!">>, polarity |-> "love",
             snippet |-> [src |-> "model", text |-> d.content.text, len |-> 60]] >>
    ELSE IF d.rating <= 2
    THEN << [theme_label |-> <<" ", "f", "i", "t">>, polarity |-> "improve",
             snippet |-> [src |-> "model", text |-> 0, len |-> 0]],
            [theme_label |-> <<"b", "a", "t">>, polarity |-> "improve",
             snippet |-> [src |-> "model", text |-> d.content.text, len |-> 80]] >>
    ELSE << [theme_label |-> <<"b", "a", "t">>, polarity |-> "mixed",
             snippet |-> [src |-> "model", text |-> 0, len |-> 0]],
            [theme_label |-> <<"!", "!">>, polarity |-> "love",
             snippet |-> [src |-> "model", text |-> d.content.text, len |-> 50]] >>

ModelItem(d) == [review_id |-> d.id, themes |-> ModelThemes(d)]

\* the parsed response array: one item per review sent, or only the first
ModelResponse(kind, review_data) ==
    LET all == [n \in 1..Len(review_data) |-> ModelItem(review_data[n])]
    IN  IF kind = "first_only" THEN Take(all, 1) ELSE all

\* the mentions of one response item, matched with a review of the chunk
ItemMentions(item, review) ==
    [t \in 1..Len(item.themes) |->
        LET theme == item.themes[t]
            theme_label == StripStr(LowerStr(theme.theme_label))
        IN  [theme_label |-> theme_label,
             polarity |-> theme.polarity,
             review_id |-> item.review_id,
             review_title |-> review.review_title,
             review_snippet |->
                 IF theme.snippet.len > 0 THEN theme.snippet
                 ELSE extract_snippet_for_theme(review.review_content,
                                                theme_label, SnippetLen)]]

RECURSIVE ResultMentions(_, _, _)
ResultMentions(result, reviews, review_idx) ==
    IF review_idx >= Len(result) THEN <<>>
    ELSE (IF review_idx < Len(reviews)
          THEN ItemMentions(result[review_idx + 1], reviews[review_idx + 1])
          ELSE <<>>)
         \o ResultMentions(result, reviews, review_idx + 1)

\* what one call of extract_themes_from_chunk can meet
ChunkOutcomes == {"call_error", "bad_json", "bad_shape", "per_review"}

\* get_groq_client: raises ValueError when os.getenv finds no GROQ_API_KEY
\* (api_key: whether the environment of the call sets it)
get_groq_client(api_key) == [raised |-> ~api_key]

\* extract_themes_from_chunk: the mentions, or raised when get_groq_client
\* raises (it is called before the try block)
extract_themes_from_chunk(reviews, chunk_id, api_key, outcome) ==
    LET review_data == ReviewData(reviews, chunk_id, <<>>)
    IN  IF get_groq_client(api_key).raised THEN [raised |-> TRUE, mentions |-> <<>>]
        ELSE IF review_data = <<>> THEN [raised |-> FALSE, mentions |-> <<>>]
        ELSE IF outcome \in {"call_error", "bad_json", "bad_shape"}
             THEN [raised |-> FALSE, mentions |-> <<>>]
        ELSE [raised |-> FALSE,
              mentions |-> ResultMentions(ModelResponse(outcome, review_data),
                                          reviews, 0)]

\* ------------------------------------------------------- brief synthesis
Quality == <<"q", "u", "a", "l", "i", "t", "y">>
GeneralFeedback == <<"g", "e", "n", "e", "r", "a", "l">>
ThemeLabels(themes) == [i \in 1..Len(themes) |-> themes[i].theme_label]
NoBrief == [kind |-> "none", text |-> <<>>, sentiment |-> "", total |-> 0,
            strengths |-> <<>>, key |-> <<>>, key_count |-> 0,
            improve |-> <<>>, trend |-> "", window_days |-> 0]

\* the fallback with the first loved theme read without the emptiness test
FallbackBriefUnguarded(total_reviews, sentiment_summary, top_loved_themes, top_improvement_themes, trends) ==
    [raised |-> top_loved_themes = <<>>,
     brief |-> [NoBrief EXCEPT !.kind = "fallback", !.text = <<"Executive Summary:">>,
                               !.sentiment = sentiment_summary,
                               !.total = total_reviews,
                               !.strengths = ThemeLabels(Take(top_loved_themes, 3)),
                               !.key_count = IF top_loved_themes # <<>>
                                             THEN top_loved_themes[1].count ELSE 0]]

\* the fallback text of generate_executive_brief: the literal parts of the
\* template (text) and the values formatted into it
FallbackBrief(total_reviews, sentiment_summary, top_loved_themes, top_improvement_themes, trends) ==
    [raised |-> FALSE,
     brief |->
       [kind |-> "fallback",
        text |-> <<"Executive Summary:", "Overall sentiment is", "Based on",
                   "Key strengths include", "Areas for improvement include",
                   "Recent trends indicate">>,
        sentiment |-> sentiment_summary,
        total |-> total_reviews,
        strengths |-> ThemeLabels(Take(top_loved_themes, 3)),
        key |-> IF top_loved_themes # <<>> THEN top_loved_themes[1].theme_label
                ELSE Quality,
        key_count |-> IF top_loved_themes # <<>> THEN top_loved_themes[1].count ELSE 0,
        improve |-> IF top_improvement_themes # <<>>
                    THEN ThemeLabels(Take(top_improvement_themes, 3))
                    ELSE <<GeneralFeedback>>,
        trend |-> IF trends.positive_count > trends.negative_count
                  THEN "improving" ELSE "declining",
        window_days |-> trends.window_days]]

BriefOutcomes == {"call_error", "text"}

\* generate_executive_brief: get_groq_client is called before the try block
generate_executive_brief(total_reviews, sentiment_summary, top_loved_themes, top_improvement_themes, trends, api_key, outcome) ==
    IF get_groq_client(api_key).raised THEN [raised |-> TRUE, brief |-> NoBrief]
    ELSE IF outcome = "text"
    THEN [raised |-> FALSE,
          brief |-> [NoBrief EXCEPT !.kind = "model", !.text = <<"model brief">>]]
    ELSE FallbackBrief(total_reviews, sentiment_summary, top_loved_themes,
                       top_improvement_themes, trends)

\* ------------------------------------------- statistics (process_analysis)
CountRating(reviews, r) == Cardinality({i \in 1..Len(reviews) : reviews[i].rating = r})

\* the counters with the branch for rating 3 missing
RatingDistributionWithoutThree(reviews) ==
    [rating_1 |-> CountRating(reviews, 1), rating_2 |-> CountRating(reviews, 2),
     rating_3 |-> 0, rating_4 |-> CountRating(reviews, 4),
     rating_5 |-> CountRating(reviews, 5)]

RatingDistribution(reviews) ==
    [rating_1 |-> CountRating(reviews, 1), rating_2 |-> CountRating(reviews, 2),
     rating_3 |-> CountRating(reviews, 3), rating_4 |-> CountRating(reviews, 4),
     rating_5 |-> CountRating(reviews, 5)]

\* positive_pct = positive_count / total * 100, compared with 60 and 40
Sentiment(positive_count, total) ==
    IF total > 0 /\ positive_count * 100 >= 60 * total THEN "positive"
    ELSE IF total > 0 /\ positive_count * 100 >= 40 * total THEN "neutral"
    ELSE "negative"

TrendWindow(reviews, now, top_improve) ==
    LET sixty_days_ago == now - WindowDays
        recent == {i \in 1..Len(reviews) :
                      /\ reviews[i].review_date # NoDate
                      /\ reviews[i].review_date >= sixty_days_ago}
        recent_positive == Cardinality({i \in recent : reviews[i].rating >= 4})
        recent_negative == Cardinality({i \in recent : reviews[i].rating <= 2})
    IN  [window_days |-> WindowDays,
         total_reviews |-> Cardinality(recent),
         positive_count |-> recent_positive,
         negative_count |-> recent_negative,
         neutral_count |-> Cardinality(recent) - recent_positive - recent_negative,
         themes_improve |-> top_improve]

\* the part of process_analysis from the aggregation to the results object:
\* raised when the brief synthesis raises
BuildResults(job_id, reviews, all_mentions, now, filename, api_key, outcome) ==
    LET rating_dist == RatingDistribution(reviews)
        positive_count == rating_dist.rating_4 + rating_dist.rating_5
        total == Len(reviews)
        sentiment == Sentiment(positive_count, total)
        theme_aggregates == aggregate_themes(all_mentions, TopN)
        trends == TrendWindow(reviews, now, theme_aggregates.improve)
        b == generate_executive_brief(total, sentiment, theme_aggregates.love,
                                      theme_aggregates.improve, trends, api_key, outcome)
    IN  [raised |-> b.raised,
         results |-> [job_id |-> job_id,
                      total_reviews |-> total,
                      rating_distribution |-> rating_dist,
                      sentiment_summary |-> sentiment,
                      positive_sentiment_pct |-> <<positive_count * 100, total>>,
                      top_loved_themes |-> theme_aggregates.love,
                      top_improvement_themes |-> theme_aggregates.improve,
                      trends |-> trends,
                      executive_brief |-> b.brief,
                      filename |-> filename]]

\* ------------------------------------------------------------ store (db.py)
\* date.isoformat() / datetime.fromisoformat().date(); NULL for no date
NULL == <<>>
isoformat(d) == <<"iso", d>>
fromisoformat(s) == s[2]

\* the row inserted with the date column left out
ReviewRowDateDropped(job_id, review) ==
    [job_id |-> job_id,
     review_id |-> review.review_id,
     review_title |-> review.review_title,
     review_content |-> review.review_content,
     rating |-> review.rating,
     review_date |-> NULL]

\* the row inserted into the reviews table for one review of a job
ReviewRow(job_id, review) ==
    [job_id |-> job_id,
     review_id |-> review.review_id,
     review_title |-> review.review_title,
     review_content |-> review.review_content,
     rating |-> review.rating,
     review_date |-> IF review.review_date # NoDate
                     THEN isoformat(review.review_date) ELSE NULL]

\* the rebuilt ReviewInput with the stored date left unread
ReviewOfStoredRowNoDate(row) ==
    [review_id |-> row.review_id,
     review_title |-> row.review_title,
     review_content |-> row.review_content,
     rating |-> row.rating,
     review_date |-> NoDate]

\* the ReviewInput rebuilt from a stored row (rerun_analysis)
ReviewOfStoredRow(row) ==
    [review_id |-> row.review_id,
     review_title |-> row.review_title,
     review_content |-> row.review_content,
     rating |-> row.rating,
     review_date |-> IF row.review_date # NULL
                     THEN fromisoformat(row.review_date) ELSE NoDate]

\* SELECT ... FROM reviews WHERE job_id = ?
RowsOfJob(table, job_id) ==
    LET Mine(row) == row.job_id = job_id IN SelectSeq(table, Mine)

\* INSERT INTO reviews, one row per review, in order
InsertReviews(table, job_id, revs) ==
    table \o [k \in 1..Len(revs) |-> ReviewRow(job_id, revs[k])]

\* a plain INSERT INTO job_results on a table without the primary key
UpsertResultAppend(table, job_id, results) ==
    table \cup {[job_id |-> job_id, results_json |-> results]}

\* INSERT OR REPLACE INTO job_results (job_id is the primary key)
UpsertResult(table, job_id, results) ==
    {row \in table : row.job_id # job_id}
        \cup {[job_id |-> job_id, results_json |-> results]}

\* UPDATE jobs SET status = ? WHERE id = ?
SetStatus(table, job_id, s) == [table EXCEPT ![job_id].status = s]

\* ------------------------------------------------------------------ state
VARIABLES
    jobs,           \* table jobs: the row of job id j is jobs[j]
    reviews,        \* table reviews: its rows in rowid order
    job_results,    \* table job_results: its rows
    today,          \* date.today()
    req,            \* per worker: the request it serves and its local state
    served,         \* number of requests received so far
    call            \* a library function called on its own: arguments, result

vars == <<jobs, reviews, job_results, today, req, served, call>>
store == <<jobs, reviews, job_results>>

NoFile == [size |-> 0, filename |-> "", utf8 |-> TRUE, csv_error |-> FALSE,
           rows |-> 0, gen |-> 0]
NoResp == [code |-> 0, detail |-> "", job_id |-> 0, status |-> "", body |-> <<>>]

\* a worker is free when it serves no request (the response of its last
\* request stays on record until it takes the next one)
Free(w) == req[w].pc \in {"idle", "done"}

\* the next request goes to the first free worker
Accepting(w) ==
    /\ served < MaxRequests
    /\ Free(w)
    /\ \A v \in Workers : v < w => ~Free(v)

\* no library function is called on its own while the application serves
NoCall == [fn |-> "", pc |-> "", arg |-> <<>>, top_n |-> 0, now |-> 0,
           chunk_id |-> 0, api_key |-> FALSE, outcome |-> "",
           out |-> <<>>, prev |-> <<>>]

\* a worker between two requests
Idle ==
    [op |-> "idle", pc |-> "idle", job_id |-> 0, file |-> NoFile,
     reviews |-> <<>>, job_status |-> "", resp |-> NoResp,
     \* history of the request, for the properties
     parse_raised |-> "", entered |-> FALSE, failed_in |-> "",
     chunk_failed |-> FALSE, brief_outcome |-> "", wrote |-> "", over |-> "",
     now |-> 0, size |-> 0]

HTTPException(code, detail) == [NoResp EXCEPT !.code = code, !.detail = detail]

\* the handler returns (or raises) and its locals are gone
Done(r, resp) == [r EXCEPT !.pc = "done", !.resp = resp, !.reviews = <<>>,
                           !.file = NoFile]

Init ==
    /\ jobs = <<>>
    /\ reviews = <<>>
    /\ job_results = {}
    /\ today = Today0
    /\ req = [w \in Workers |-> Idle]
    /\ served = 0
    /\ call = NoCall

\* -------------------------------------------------- analyze_reviews (upload)
\* the upload received without the size check
UploadReceiveUnchecked(w, f) ==
    /\ Accepting(w)
    /\ served' = served + 1
    /\ jobs' = Append(jobs, [status |-> "pending", total_reviews |-> 0,
                             filename |-> IF f.filename # "" THEN f.filename
                                          ELSE "uploaded_file.csv"])
    /\ req' = [req EXCEPT ![w] =
            [Idle EXCEPT !.op = "upload", !.pc = "parse", !.size = f.size,
                         !.job_id = Len(jobs) + 1, !.file = f]]
    /\ UNCHANGED <<reviews, job_results, today, call>>

\* size check and INSERT INTO jobs ... "pending" (first commit)
UploadReceive(w, f) ==
    /\ Accepting(w)
    /\ served' = served + 1
    /\ IF f.size > MAX_FILE_SIZE
       THEN /\ req' = [req EXCEPT ![w] =
                    Done([Idle EXCEPT !.op = "upload", !.size = f.size],
                         HTTPException(400, "File size exceeds maximum"))]
            /\ UNCHANGED jobs
       ELSE /\ jobs' = Append(jobs, [status |-> "pending", total_reviews |-> 0,
                                     filename |-> IF f.filename # "" THEN f.filename
                                                  ELSE "uploaded_file.csv"])
            /\ req' = [req EXCEPT ![w] =
                    [Idle EXCEPT !.op = "upload", !.pc = "parse", !.size = f.size,
                                 !.job_id = Len(jobs) + 1, !.file = f]]
    /\ UNCHANGED <<reviews, job_results, today, call>>

\* the response of the upload when parse_csv raises
ParseFailureResponse(raised) ==
    IF raised = "ValueError" THEN HTTPException(400, "parse")
    ELSE HTTPException(500, "Processing error")

\* parse_csv, then UPDATE jobs ... "processing" (commit), or the except
\* branches: UPDATE jobs ... "error" (commit) and the HTTP error
UploadParse(w) ==
    /\ req[w].pc = "parse"
    /\ LET r == req[w]
           p == parse_csv(r.file, MAX_ROWS)
       IN  IF p.raised # ""
           THEN /\ jobs' = SetStatus(jobs, r.job_id, "error")
                /\ req' = [req EXCEPT ![w] =
                        Done([r EXCEPT !.parse_raised = p.raised, !.wrote = "error",
                                       !.over = jobs[r.job_id].status],
                             ParseFailureResponse(p.raised))]
           ELSE /\ jobs' = [jobs EXCEPT ![r.job_id].status = "processing",
                                        ![r.job_id].total_reviews = Len(p.reviews)]
                /\ req' = [req EXCEPT ![w] =
                        [r EXCEPT !.pc = "insert", !.file = NoFile,
                                  !.reviews = p.reviews, !.wrote = "processing",
                                  !.over = jobs[r.job_id].status]]
    /\ UNCHANGED <<reviews, job_results, today, call, served>>

\* INSERT INTO reviews for every review (commit), then process_analysis starts
UploadInsertReviews(w) ==
    /\ req[w].pc = "insert"
    /\ reviews' = InsertReviews(reviews, req[w].job_id, req[w].reviews)
    /\ req' = [req EXCEPT ![w] = [@ EXCEPT !.pc = "analysis", !.entered = TRUE]]
    /\ UNCHANGED <<jobs, job_results, today, call, served>>

\* ------------------------------------------------------- process_analysis
NumChunks(revs) == (Len(revs) + CHUNK_SIZE - 1) \div CHUNK_SIZE

\* the chunk loop from index i on: the mentions of all chunks, or raised when
\* extract_themes_from_chunk raises; outcomes[c + 1] is what the call for
\* chunk c meets
RECURSIVE ExtractAll(_, _, _, _)
ExtractAll(revs, i, api_key, outcomes) ==
    IF i >= Len(revs) THEN [raised |-> FALSE, mentions |-> <<>>]
    ELSE LET chunk == SubSeq(revs, i + 1, Min(i + CHUNK_SIZE, Len(revs)))
             chunk_id == i \div CHUNK_SIZE
             x == extract_themes_from_chunk(chunk, chunk_id, api_key,
                                            outcomes[chunk_id + 1])
         IN  IF x.raised THEN [raised |-> TRUE, mentions |-> <<>>]
             ELSE LET rest == ExtractAll(revs, i + CHUNK_SIZE, api_key, outcomes)
                  IN  [raised |-> rest.raised,
                       mentions |-> IF rest.raised THEN <<>>
                                    ELSE x.mentions \o rest.mentions]

\* the except branch of process_analysis: UPDATE jobs ... "error" (commit)
\* and re-raise.  The upload catches it (ValueError: its first except
\* branch); a rerun lets it through and the framework answers 500.
PipelineFails(w, where, met) ==
    /\ jobs' = SetStatus(jobs, req[w].job_id, "error")
    /\ req' = [req EXCEPT ![w] =
            LET r == [@ EXCEPT !.failed_in = where, !.wrote = "error",
                               !.over = jobs[req[w].job_id].status,
                               !.brief_outcome = met]
            IN  IF r.op = "upload" THEN [r EXCEPT !.pc = "upload_except"]
                ELSE Done(r, HTTPException(500, "Internal Server Error"))]
    /\ UNCHANGED job_results

\* the store with the status committed on its own, before the result row
StoreResultsTorn(w, results) ==
    /\ jobs' = SetStatus(jobs, req[w].job_id, "completed")
    /\ UNCHANGED job_results

\* INSERT OR REPLACE INTO job_results and UPDATE jobs ... "completed", one
\* commit
StoreResults(w, results) ==
    /\ job_results' = UpsertResult(job_results, req[w].job_id, results)
    /\ jobs' = SetStatus(jobs, req[w].job_id, "completed")

\* process_analysis: statistics, chunk loop, aggregation, brief, and the one
\* commit that ends it (the results and "completed", or "error"), in an
\* environment that sets GROQ_API_KEY or not (api_key) and where the calls
\* of the hosted model meet the given outcomes
RunAnalysis(w, api_key, brief_outcome, outcomes) ==
    /\ req[w].pc = "analysis"
    /\ LET r == req[w]
           e == ExtractAll(r.reviews, 0, api_key, outcomes)
           b == BuildResults(r.job_id, r.reviews, e.mentions, today,
                             jobs[r.job_id].filename, api_key, brief_outcome)
           met == IF get_groq_client(api_key).raised THEN "client_error"
                  ELSE brief_outcome
       IN  IF e.raised THEN PipelineFails(w, "extract", "")
           ELSE IF b.raised THEN PipelineFails(w, "brief", met)
           ELSE /\ StoreResults(w, b.results)
                /\ req' = [req EXCEPT ![w] =
                       Done([r EXCEPT !.brief_outcome = met,
                                      !.chunk_failed =
                                          \E c \in DOMAIN outcomes :
                                              outcomes[c] # "per_review",
                                      !.wrote = "completed",
                                      !.now = today,
                                      !.over = jobs[r.job_id].status],
                            [NoResp EXCEPT !.code = IF r.op = "upload" THEN 201
                                                    ELSE 200,
                                           !.job_id = r.job_id,
                                           !.status = "processing"])]
    /\ UNCHANGED <<reviews, today, call, served>>

\* a run of process_analysis in any environment
ProcessAnalysis(w) ==
    \E api_key \in BOOLEAN, brief_outcome \in BriefOutcomes,
       outcomes \in [1..NumChunks(req[w].reviews) -> ChunkOutcomes] :
        RunAnalysis(w, api_key, brief_outcome, outcomes)

\* the except ValueError branch of the upload after process_analysis raised:
\* UPDATE jobs ... "error" again (commit) and HTTP 400
UploadExcept(w) ==
    /\ req[w].pc = "upload_except"
    /\ jobs' = SetStatus(jobs, req[w].job_id, "error")
    /\ req' = [req EXCEPT ![w] =
            Done([@ EXCEPT !.over = jobs[req[w].job_id].status],
                 HTTPException(400, "GROQ_API_KEY not found"))]
    /\ UNCHANGED <<reviews, job_results, today, call, served>>

\* ---------------------------------------------------------- get_job_results
\* the status test with "pending" left out of the in-progress statuses
StatusResponseNoPending(job_id, job_status) ==
    IF job_status = "processing"
    THEN [NoResp EXCEPT !.code = 202, !.job_id = job_id, !.status = job_status]
    ELSE IF job_status = "error"
    THEN HTTPException(500, "Job processing failed")
    ELSE NoResp

\* the answer decided by the job's status alone; NoResp: go on to the results
StatusResponse(job_id, job_status) ==
    IF job_status \in {"pending", "processing"}
    THEN [NoResp EXCEPT !.code = 202, !.job_id = job_id, !.status = job_status]
    ELSE IF job_status = "error"
    THEN HTTPException(500, "Job processing failed")
    ELSE NoResp

\* SELECT status FROM jobs and the answers that need nothing else
QueryStatus(w, job_id) ==
    /\ Accepting(w)
    /\ served' = served + 1
    /\ req' = [req EXCEPT ![w] =
            IF job_id \notin DOMAIN jobs
            THEN Done([Idle EXCEPT !.op = "query", !.job_id = job_id],
                      HTTPException(404, "Job not found"))
            ELSE LET job_status == jobs[job_id].status
                     r == [Idle EXCEPT !.op = "query", !.job_id = job_id,
                                       !.job_status = job_status]
                 IN  IF StatusResponse(job_id, job_status) # NoResp
                     THEN Done(r, StatusResponse(job_id, job_status))
                     ELSE [r EXCEPT !.pc = "query_results"]]
    /\ UNCHANGED <<store, today, call>>

\* SELECT results_json FROM job_results and the AnalysisResults answer
QueryResults(w) ==
    /\ req[w].pc = "query_results"
    /\ LET rows == {row \in job_results : row.job_id = req[w].job_id}
       IN  req' = [req EXCEPT ![w] =
               IF rows = {}
               THEN Done(@, HTTPException(404, "Results not found"))
               ELSE Done(@, [NoResp EXCEPT !.code = 200, !.job_id = req[w].job_id,
                                 !.body = <<(CHOOSE row \in rows : TRUE).results_json>>])]
    /\ UNCHANGED <<store, today, call, served>>

\* ------------------------------------------------------------ rerun_analysis
\* the rerun checks without the test for stored reviews
RerunCheckJobOnly(job_exists, rows) ==
    IF ~job_exists THEN HTTPException(404, "Job not found") ELSE NoResp

\* the two checks of the rerun: the 404 it answers, or NoResp to go on
RerunCheck(job_exists, rows) ==
    IF ~job_exists THEN HTTPException(404, "Job not found")
    ELSE IF rows = <<>> THEN HTTPException(404, "No reviews found for this job")
    ELSE NoResp

\* SELECT id FROM jobs, SELECT ... FROM reviews, and the conversion of the
\* rows back to ReviewInput objects
RerunRead(w, job_id) ==
    /\ Accepting(w)
    /\ served' = served + 1
    /\ LET rows == RowsOfJob(reviews, job_id)
           check == RerunCheck(job_id \in DOMAIN jobs, rows)
           r == [Idle EXCEPT !.op = "rerun", !.job_id = job_id]
       IN  req' = [req EXCEPT ![w] =
               IF check # NoResp THEN Done(r, check)
               ELSE [r EXCEPT !.pc = "rerun_set",
                              !.reviews = [k \in 1..Len(rows) |->
                                              ReviewOfStoredRow(rows[k])]]]
    /\ UNCHANGED <<store, today, call>>

\* UPDATE jobs ... "processing" (commit), then process_analysis starts
RerunSetProcessing(w) ==
    /\ req[w].pc = "rerun_set"
    /\ jobs' = SetStatus(jobs, req[w].job_id, "processing")
    /\ req' = [req EXCEPT ![w] =
            [@ EXCEPT !.pc = "analysis", !.entered = TRUE,
                      !.wrote = "processing",
                      !.over = jobs[req[w].job_id].status]]
    /\ UNCHANGED <<reviews, job_results, today, call, served>>

\* ------------------------------------------------------------- environment
Next ==
    \/ \E w \in Workers, f \in Files : UploadReceive(w, f)
    \/ \E w \in Workers : UploadParse(w)
    \/ \E w \in Workers : UploadInsertReviews(w)
    \/ \E w \in Workers : ProcessAnalysis(w)
    \/ \E w \in Workers : UploadExcept(w)
    \/ \E w \in Workers, job_id \in JobIds : QueryStatus(w, job_id)
    \/ \E w \in Workers : QueryResults(w)
    \/ \E w \in Workers, job_id \in JobIds : RerunRead(w, job_id)
    \/ \E w \in Workers : RerunSetProcessing(w)

Spec == Init /\ [][Next]_vars

\* ==================================================== the application in time
\* an upload whose reviews are dated at the edge of the trend window of the
\* day it is made
DatedFile ==
    [size |-> 4096, filename |-> "dated.csv", utf8 |-> TRUE,
     csv_error |-> FALSE, rows |-> CHUNK_SIZE + 1, gen |-> 5]

\* midnight: date.today() moves on by one day.  A run reads the date once
\* (routes.py:161); the model reads it in the step that ends the run.
Tick ==
    /\ today < Today0 + MaxTicks
    /\ today' = today + 1
    /\ UNCHANGED <<store, req, served, call>>

\* the hosted model answers every call of a run
Answered(revs) == [c \in 1..NumChunks(revs) |-> "per_review"]

NextClock ==
    \/ \E w \in Workers : UploadReceive(w, DatedFile)
    \/ \E w \in Workers : UploadParse(w)
    \/ \E w \in Workers : UploadInsertReviews(w)
    \/ \E w \in Workers, api_key \in BOOLEAN :
           RunAnalysis(w, api_key, "text", Answered(req[w].reviews))
    \/ \E w \in Workers : UploadExcept(w)
    \/ \E w \in Workers, job_id \in JobIds : RerunRead(w, job_id)
    \/ \E w \in Workers : RerunSetProcessing(w)
    \/ Tick

SpecClock == Init /\ [][NextClock]_vars

\* ============================================= library functions on their own
\* The functions of llm.py and parsing.py and the trend statistics of
\* routes.py called directly, as a unit test does: the arguments are drawn
\* at the start and one action per function applies it.  The application
\* state stays as constructed.
AppIdle ==
    /\ jobs = <<>>
    /\ reviews = <<>>
    /\ job_results = {}
    /\ today = Today0
    /\ req = [w \in Workers |-> Idle]
    /\ served = 0

\* sequences over pool of length at most n
SeqsUpTo(pool, n) == UNION {[1..k -> pool] : k \in 0..n}

\* s repeated k times
Repeat(s, k) == [i \in 1..(k * Len(s)) |-> s[((i - 1) % Len(s)) + 1]]

\* -- aggregate_themes
Snip(t, n) == [src |-> "model", text |-> t, len |-> n]
MentionPool ==
    << [theme_label |-> <<"F", "i", "t", "!">>, polarity |-> "love", review_id |-> 1,
        review_title |-> "Great", review_snippet |-> Snip(1, 60)],
       [theme_label |-> <<"f", "i", "t">>, polarity |-> "love", review_id |-> 2,
        review_title |-> "Meh", review_snippet |-> Snip(2, 50)],
       [theme_label |-> <<"f", "i", "t">>, polarity |-> "love", review_id |-> 3,
        review_title |-> "Great", review_snippet |-> Snip(3, 40)],
       [theme_label |-> <<"b", "a", "t">>, polarity |-> "mixed", review_id |-> 4,
        review_title |-> NoTitle, review_snippet |-> NoText],
       [theme_label |-> <<"b", "a", "t">>, polarity |-> "improve", review_id |-> 5,
        review_title |-> "Meh", review_snippet |-> Snip(5, 30)],
       [theme_label |-> <<"!", "!">>, polarity |-> "love", review_id |-> 6,
        review_title |-> "Meh", review_snippet |-> Snip(6, 20)] >>

\* the collections aggregate_themes is called on: every short collection
\* over the pool, and long runs of one mention followed by another one of
\* the same group, around the length of the quote scan
MentionInputs ==
    {[i \in DOMAIN q |-> MentionPool[q[i]]] : q \in SeqsUpTo(1..Len(MentionPool), MaxMentions)}
        \cup {Repeat(<<MentionPool[1]>>, k) \o <<MentionPool[2]>> :
                  k \in (QuoteScan - 1)..(QuoteScan + 1)}
        \cup {Repeat(<<MentionPool[4]>>, k) \o <<MentionPool[1], MentionPool[3]>> :
                  k \in (QuoteScan - 1)..QuoteScan}

TopNs == {1, TopN}

AggregateCalls ==
    {[NoCall EXCEPT !.fn = "aggregate_themes", !.pc = "called", !.arg = m,
                    !.top_n = n] : m \in MentionInputs, n \in TopNs}

\* aggregate_themes(mentions, top_n) returns
CallAggregateThemes ==
    /\ call.fn = "aggregate_themes" /\ call.pc = "called"
    /\ call' = [call EXCEPT !.pc = "returned",
                            !.out = aggregate_themes(call.arg, call.top_n)]
    /\ UNCHANGED <<store, today, req, served>>

\* the caller submits the same collection again with two mentions exchanged;
\* the first collection and its result stay on record
Reorder(i, j) ==
    /\ call.fn = "aggregate_themes" /\ call.pc = "returned"
    /\ i < j /\ j <= Len(call.arg) /\ call.arg[i] # call.arg[j]
    /\ call' = [call EXCEPT !.pc = "called",
                            !.arg = [@ EXCEPT ![i] = call.arg[j], ![j] = call.arg[i]],
                            !.out = <<>>,
                            !.prev = IF call.prev = <<>>
                                     THEN <<[arg |-> call.arg, out |-> call.out]>>
                                     ELSE call.prev]
    /\ UNCHANGED <<store, today, req, served>>

\* -- parse_rating
DigitChar(d) == CHOOSE c \in Digits : DigitVal(c) = d

\* str(n) for an integer of at most two digits
IntStr(n) ==
    LET a == IF n < 0 THEN 0 - n ELSE n
        digits == IF a >= 10 THEN <<DigitChar(a \div 10), DigitChar(a % 10)>>
                  ELSE <<DigitChar(a)>>
    IN  (IF n < 0 THEN <<"-">> ELSE <<>>) \o digits

OutOfFiveStars ==
    <<" ", "o", "u", "t", " ", "o", "f", " ", "5", " ", "s", "t", "a", "r", "s">>

\* the rating strings parse_rating is called on: "<n> out of 5 stars" for
\* the integers up to MaxRating either side of 0, the cells of the input
\* files, and a few more
RatingInputs ==
    {IntStr(n) \o OutOfFiveStars : n \in (0 - MaxRating)..MaxRating}
        \cup {RatingStrs[i] : i \in DOMAIN RatingStrs}
        \cup {<<"5", ".", "0">> \o OutOfFiveStars, <<" ">>, OutOfFiveStars,
              <<"n", "o", " ", "4">>}

RatingCalls ==
    {[NoCall EXCEPT !.fn = "parse_rating", !.pc = "called", !.arg = r] :
        r \in RatingInputs}

\* parse_rating(rating_str) returns
CallParseRating ==
    /\ call.fn = "parse_rating" /\ call.pc = "called"
    /\ call' = [call EXCEPT !.pc = "returned", !.out = parse_rating(call.arg)]
    /\ UNCHANGED <<store, today, req, served>>

\* -- extract_themes_from_chunk
\* reviews as parse_csv and rerun_analysis build them: with and without id
\* and title, with a body long enough to be sent and too short
ReviewPool ==
    << [review_id |-> 1, review_title |-> "Great",
        review_content |-> [text |-> 1, len |-> 40], rating |-> 5,
        review_date |-> Today0],
       [review_id |-> NoId, review_title |-> "Meh",
        review_content |-> [text |-> 2, len |-> 5], rating |-> 1,
        review_date |-> NoDate],
       [review_id |-> NoId, review_title |-> "Fine",
        review_content |-> [text |-> 3, len |-> 120], rating |-> 2,
        review_date |-> Today0 - WindowDays],
       [review_id |-> 4, review_title |-> NoTitle,
        review_content |-> NoText, rating |-> 3,
        review_date |-> Today0 - WindowDays - 1] >>

ReviewInputs ==
    {[i \in DOMAIN q |-> ReviewPool[q[i]]] : q \in SeqsUpTo(1..Len(ReviewPool), MaxReviews)}

ExtractCalls ==
    {[NoCall EXCEPT !.fn = "extract_themes_from_chunk", !.pc = "called",
                    !.arg = r, !.chunk_id = c, !.api_key = k, !.outcome = o] :
        r \in ReviewInputs, c \in {0, 1}, k \in BOOLEAN, o \in ChunkOutcomes}

\* extract_themes_from_chunk(reviews, chunk_id) returns or raises
CallExtractThemes ==
    /\ call.fn = "extract_themes_from_chunk" /\ call.pc = "called"
    /\ call' = [call EXCEPT !.pc = "returned",
                            !.out = extract_themes_from_chunk(call.arg, call.chunk_id,
                                                              call.api_key, call.outcome)]
    /\ UNCHANGED <<store, today, req, served>>

\* the dates a run can read from date.today(): the newest review of the pool
\* is then WindowDays + 1 days ahead, on the day, or one day back
Nows == {Today0 - WindowDays - 1, Today0, Today0 + 1}

TrendCalls ==
    {[NoCall EXCEPT !.fn = "trend_window", !.pc = "called", !.arg = r, !.now = n] :
        r \in ReviewInputs, n \in Nows}

\* the trend block of process_analysis on its own, with no themes attached
CallTrendWindow ==
    /\ call.fn = "trend_window" /\ call.pc = "called"
    /\ call' = [call EXCEPT !.pc = "returned",
                            !.out = TrendWindow(call.arg, call.now, <<>>)]
    /\ UNCHANGED <<store, today, req, served>>

InitLib ==
    AppIdle /\ call \in AggregateCalls \cup RatingCalls \cup ExtractCalls \cup TrendCalls

NextLib ==
    \/ CallParseRating
    \/ CallExtractThemes
    \/ CallAggregateThemes
    \/ CallTrendWindow
    \/ \E i, j \in 1..(QuoteScan + 3) : Reorder(i, j)

SpecLib == InitLib /\ [][NextLib]_vars

\* ================================================================ properties
Terminal == {"completed", "error"}
Exists(job_id) == job_id \in DOMAIN jobs
ResultRows(table, job_id) == {row \in table : row.job_id = job_id}

\* worker w takes a request of kind op in this step
Takes(w, op) == Accepting(w) /\ served' = served + 1 /\ req'[w].op = op

\* -- C1 ---------------------------------------------------------------------
\* C1: every change of a job's persisted status is pending -> processing,
\* processing -> completed, a failure (to error), or completed/error ->
\* processing; never pending -> completed, never completed -> error.
AllowedTransitions ==
    { <<"pending", "processing">>, <<"processing", "completed">>,
      <<"pending", "error">>, <<"processing", "error">>,
      <<"completed", "processing">>, <<"error", "processing">> }

C1_StatusTransitions ==
    [][\A j \in DOMAIN jobs :
          jobs'[j].status # jobs[j].status
              => <<jobs[j].status, jobs'[j].status>> \in AllowedTransitions]_vars

\* -- C2 ---------------------------------------------------------------------
\* C2: a query on an existing job answers in-progress (202, no results, not
\* 404) when the status it reads is pending or processing, the failure
\* indicator (500) when it is error, and the results only when it is completed.
C2_QueryAnswers ==
    [][\A w \in Workers :
          /\ (Takes(w, "query") /\ Exists(req'[w].job_id)) =>
                LET st == jobs[req'[w].job_id].status
                    r == req'[w]
                IN  /\ st \in {"pending", "processing"} =>
                          /\ r.pc = "done" /\ r.resp.code = 202
                          /\ r.resp.status = st /\ r.resp.body = <<>>
                    /\ st = "error" =>
                          r.pc = "done" /\ r.resp.code = 500 /\ r.resp.body = <<>>
                    /\ r.resp.body = <<>>
          /\ (req[w].pc = "query_results" /\ req'[w].pc = "done") =>
                /\ req'[w].resp.body # <<>> =>
                      /\ req[w].job_status = "completed"
                      /\ req'[w].resp.code = 200
                      /\ req'[w].resp.body[1].job_id = req[w].job_id]_vars

C2_Witness ==
    \E w \in Workers :
        /\ req[w].op = "query" /\ req[w].pc = "done"
        /\ req[w].resp.code = 202
        /\ Exists(req[w].job_id)
        /\ jobs[req[w].job_id].status = "processing"

\* -- C3 ---------------------------------------------------------------------
\* C3: an upload whose file was parsed and handed to the pipeline returns
\* the job id; a failure of the pipeline is not a failure of the upload.
C3_UploadReturnsJobId ==
    \A w \in Workers :
        (req[w].op = "upload" /\ req[w].pc = "done" /\ req[w].entered) =>
            /\ req[w].resp.code = 201
            /\ req[w].resp.job_id = req[w].job_id

\* -- C4 ---------------------------------------------------------------------
\* C4: no run of the pipeline is aborted by the theme extraction of a chunk.
C4_ChunkFailureContained ==
    \A w \in Workers : req[w].failed_in # "extract"

\* -- C5 ---------------------------------------------------------------------
\* C5: when the model call of the brief fails, the brief synthesis does not
\* raise, the run ends with the job completed, and the brief it stores is the
\* non-empty fallback text built from the statistics of the same result.
C5_BriefFallback ==
    [][\A w \in Workers :
          (req[w].pc = "analysis" /\ req'[w].brief_outcome = "call_error") =>
              /\ req'[w].failed_in = ""
              /\ req'[w].pc = "done"
              /\ req'[w].wrote = "completed"
              /\ req'[w].resp.code \in {200, 201}
              /\ jobs'[req[w].job_id].status = "completed"
              /\ \E row \in ResultRows(job_results', req[w].job_id) :
                    LET res == row.results_json
                        b == res.executive_brief
                    IN  /\ b.kind = "fallback"
                        /\ b.text # <<>>
                        /\ b.sentiment = res.sentiment_summary
                        /\ b.total = res.total_reviews
                        /\ b.strengths = ThemeLabels(res.top_loved_themes)
                        /\ b.key = IF res.top_loved_themes = <<>> THEN Quality
                                   ELSE res.top_loved_themes[1].theme_label
                        /\ b.improve = IF res.top_improvement_themes = <<>>
                                       THEN <<GeneralFeedback>>
                                       ELSE ThemeLabels(res.top_improvement_themes)]_vars

C5_Witness ==
    \E w \in Workers :
        /\ req[w].brief_outcome = "call_error" /\ req[w].pc = "done"
        /\ req[w].wrote = "completed"
        /\ jobs[req[w].job_id].status = "completed"
        /\ \E row \in ResultRows(job_results, req[w].job_id) :
              /\ row.results_json.executive_brief.kind = "fallback"
              /\ row.results_json.top_loved_themes = <<>>
              /\ row.results_json.top_improvement_themes # <<>>

\* -- C6 ---------------------------------------------------------------------
\* C6: when parse_csv fails, the upload is answered with a client error
\* (4xx), the job is in error and none of its reviews is stored.
C6_ParseFailure ==
    \A w \in Workers :
        (req[w].op = "upload" /\ req[w].pc = "done" /\ req[w].parse_raised # "") =>
            /\ req[w].resp.code \in 400..499
            /\ jobs[req[w].job_id].status = "error"
            /\ RowsOfJob(reviews, req[w].job_id) = <<>>

\* -- C7 ---------------------------------------------------------------------
\* C7 as claimed: a rerun requested on any job in completed or error goes on
\* to set the job to processing and to run the pipeline.
C7_RerunFromAnyTerminal ==
    [][\A w \in Workers :
          (/\ Takes(w, "rerun")
           /\ Exists(req'[w].job_id)
           /\ jobs[req'[w].job_id].status \in Terminal)
              => req'[w].pc = "rerun_set"]_vars

\* C7 as amended: a rerun requested on a job in completed or error that has
\* stored reviews takes exactly the stored reviews (as many as the job's
\* total_reviews, each one the review its row was written from), sets the
\* job to processing and enters the pipeline with them, storing no review;
\* on a terminal job without stored reviews it answers 404 and changes
\* nothing.
C7_RerunFromStoredRecords ==
    [][\A w \in Workers :
          /\ (/\ Takes(w, "rerun")
              /\ Exists(req'[w].job_id)
              /\ jobs[req'[w].job_id].status \in Terminal) =>
                LET j == req'[w].job_id
                    rows == RowsOfJob(reviews, j)
                IN  IF rows # <<>>
                    THEN /\ req'[w].pc = "rerun_set"
                         /\ Len(req'[w].reviews) = jobs[j].total_reviews
                         /\ Len(req'[w].reviews) = Len(rows)
                         /\ \A k \in 1..Len(rows) :
                                ReviewRow(j, req'[w].reviews[k]) = rows[k]
                    ELSE /\ req'[w].pc = "done"
                         /\ req'[w].resp.code = 404
                         /\ UNCHANGED store
          /\ (req[w].pc = "rerun_set" /\ req'[w].pc # "rerun_set") =>
                /\ jobs'[req[w].job_id].status = "processing"
                /\ req'[w].pc = "analysis" /\ req'[w].entered
                /\ req'[w].reviews = req[w].reviews
                /\ UNCHANGED <<reviews, job_results>>]_vars

C7_Witness ==
    \E w \in Workers :
        /\ req[w].op = "rerun" /\ req[w].pc = "analysis"
        /\ req[w].over = "error"
        /\ jobs[req[w].job_id].status = "processing"
        /\ \E k \in 1..Len(req[w].reviews) : req[w].reviews[k].review_date # NoDate

\* -- C8 ---------------------------------------------------------------------
\* C8: a rerun of an unknown job or of a job without stored reviews answers
\* 404, does not enter the pipeline and leaves the three tables unchanged.
C8_RerunRejected ==
    [][\A w \in Workers :
          (/\ Takes(w, "rerun")
           /\ \/ ~Exists(req'[w].job_id)
              \/ RowsOfJob(reviews, req'[w].job_id) = <<>>)
              => /\ req'[w].pc = "done"
                 /\ req'[w].resp.code = 404
                 /\ ~req'[w].entered
                 /\ req'[w].wrote = ""
                 /\ UNCHANGED store]_vars

C8_Witness ==
    \E w \in Workers :
        /\ req[w].op = "rerun" /\ req[w].pc = "done"
        /\ req[w].resp.detail = "No reviews found for this job"
        /\ Exists(req[w].job_id)
        /\ jobs[req[w].job_id].status = "error"

\* -- C9 ---------------------------------------------------------------------
\* C9: in every state a completed job has a result row and no query has been
\* answered "Results not found"; a job's result row appears in the same step
\* in which the job becomes completed.
C9_NoTornResult ==
    /\ [](/\ \A j \in DOMAIN jobs :
                jobs[j].status = "completed" => ResultRows(job_results, j) # {}
          /\ \A w \in Workers : req[w].resp.detail # "Results not found")
    /\ [][\A j \in DOMAIN jobs :
             (ResultRows(job_results, j) = {} /\ ResultRows(job_results', j) # {})
                 => jobs'[j].status = "completed"]_vars

C9_Witness ==
    \E w \in Workers :
        /\ req[w].op = "query" /\ req[w].pc = "done"
        /\ req[w].job_status = "completed"
        /\ req[w].resp.code = 200
        /\ req[w].resp.body = <<(CHOOSE row \in job_results :
                                    row.job_id = req[w].job_id).results_json>>

\* -- C10 --------------------------------------------------------------------
\* C10: the stored reviews of a job, once written, never change; they are
\* written only by the upload of that job; a job never has two result rows;
\* a run that stores its result leaves exactly one row for the job, and a run
\* that fails leaves the job's result row as it was.
C10_RecordsAndResultFrame ==
    [][/\ \A j \in JobIds :
             /\ RowsOfJob(reviews, j) # <<>>
                    => RowsOfJob(reviews', j) = RowsOfJob(reviews, j)
             /\ RowsOfJob(reviews', j) # RowsOfJob(reviews, j)
                    => \E w \in Workers : /\ req[w].op = "upload"
                                          /\ req[w].pc = "insert"
                                          /\ req[w].job_id = j
             /\ Cardinality(ResultRows(job_results', j)) <= 1
       /\ \A w \in Workers :
             /\ (req[w].pc = "analysis" /\ req'[w].wrote = "completed") =>
                    Cardinality(ResultRows(job_results', req[w].job_id)) = 1
             /\ (req[w].pc = "analysis" /\ req'[w].wrote = "error") =>
                    job_results' = job_results]_vars

\* the result of a first run (brief answered by the model) replaced by the
\* result of a rerun (fallback brief), over the unchanged reviews
C10_Witness ==
    \E w \in Workers, v \in Workers :
        /\ req[v].op = "upload" /\ req[v].pc = "done" /\ req[v].wrote = "completed"
        /\ req[v].brief_outcome = "text"
        /\ req[w].op = "rerun" /\ req[w].pc = "done" /\ req[w].wrote = "completed"
        /\ req[w].brief_outcome = "call_error"
        /\ req[w].job_id = req[v].job_id
        /\ \E row \in job_results :
              /\ ResultRows(job_results, req[w].job_id) = {row}
              /\ row.results_json.executive_brief.kind = "fallback"
        /\ Len(RowsOfJob(reviews, req[w].job_id)) = jobs[req[w].job_id].total_reviews

\* ------------------------------------------------ aggregation, stated apart
Polarities == {"love", "improve"}

\* the polarity a mention counts under, and the groups of a collection
CountsUnder(m) == IF m.polarity = "improve" THEN "improve" ELSE "love"
LabelsOf(mentions) ==
    {normalize_theme_label(mentions[i].theme_label) : i \in DOMAIN mentions} \ {<<>>}
MembersOf(mentions, l, p) ==
    {i \in DOMAIN mentions : /\ normalize_theme_label(mentions[i].theme_label) = l
                             /\ CountsUnder(mentions[i]) = p}
GroupCount(mentions, l, p) == Cardinality(MembersOf(mentions, l, p))

\* no two groups of one polarity have the same number of mentions
NoTies(mentions) ==
    \A p \in Polarities : \A l1, l2 \in LabelsOf(mentions) :
        (l1 # l2 /\ GroupCount(mentions, l1, p) > 0)
            => GroupCount(mentions, l1, p) # GroupCount(mentions, l2, p)

\* labels and counts of a ranked list, in its order
Ranking(list) == [k \in DOMAIN list |-> <<list[k].theme_label, list[k].count>>]

AggregateReturned == call.fn = "aggregate_themes" /\ call.pc = "returned"

\* -- C11 --------------------------------------------------------------------
\* C11 as stated: aggregate_themes gives the same ranked lists (labels,
\* counts, order) for a collection and for every reordering of it.
C11_OrderIndependent ==
    (AggregateReturned /\ call.prev # <<>>) =>
        \A p \in Polarities : Ranking(call.out[p]) = Ranking(call.prev[1].out[p])

\* C11 amended: when no two groups of a polarity have the same count,
\* aggregate_themes gives the same ranked lists (labels, counts, order) for
\* the collection and for every reordering of it.
C11_OrderIndependentWithoutTies ==
    (AggregateReturned /\ call.prev # <<>> /\ NoTies(call.arg)) =>
        \A p \in Polarities : Ranking(call.out[p]) = Ranking(call.prev[1].out[p])

C11_Witness ==
    /\ AggregateReturned /\ call.prev # <<>>
    /\ call.arg # call.prev[1].arg
    /\ NoTies(call.arg)
    /\ Len(call.out.love) >= 2
    /\ call.arg[1].theme_label # call.prev[1].arg[1].theme_label
    /\ Ranking(call.out.love) = Ranking(call.prev[1].out.love)

\* ------------------------------------------------ statistics of stored results
TrendCounts(t) == <<t.total_reviews, t.positive_count, t.negative_count, t.neutral_count>>

\* worker w ends a rerun in this step by storing its result
RerunCompletes(w) ==
    req[w].op = "rerun" /\ req[w].pc = "analysis" /\ req'[w].wrote = "completed"

\* a completed run of w's job, other than w's, read the date that today is
RanToday(w) ==
    \E v \in Workers \ {w} :
        /\ req[v].pc = "done" /\ req[v].wrote = "completed"
        /\ req[v].job_id = req[w].job_id
        /\ req[v].now = today

\* -- C12 --------------------------------------------------------------------
\* C12 as stated: a rerun that completes stores the same rating
\* distribution, sentiment label and trend-window counts as the result it
\* replaces, whenever it runs.
C12_RerunReproduces ==
    [][\A w \in Workers : RerunCompletes(w) =>
          \A old \in ResultRows(job_results, req[w].job_id),
             new \in ResultRows(job_results', req[w].job_id) :
              /\ new.results_json.rating_distribution = old.results_json.rating_distribution
              /\ new.results_json.sentiment_summary = old.results_json.sentiment_summary
              /\ TrendCounts(new.results_json.trends) = TrendCounts(old.results_json.trends)]_vars

\* C12 amended: a rerun that completes stores the same rating distribution
\* and sentiment label as the result it replaces, whenever it runs, and the
\* same trend-window counts when it runs on the date of the run it replaces.
C12_RerunReproducesOnSameDate ==
    [][\A w \in Workers : RerunCompletes(w) =>
          \A old \in ResultRows(job_results, req[w].job_id),
             new \in ResultRows(job_results', req[w].job_id) :
              /\ new.results_json.rating_distribution = old.results_json.rating_distribution
              /\ new.results_json.sentiment_summary = old.results_json.sentiment_summary
              /\ RanToday(w) =>
                    TrendCounts(new.results_json.trends)
                        = TrendCounts(old.results_json.trends)]_vars

\* an upload and a rerun of its job both completed on the day after the
\* start, with a review in the trend window
C12_Witness ==
    \E w \in Workers, v \in Workers :
        /\ req[v].op = "upload" /\ req[v].pc = "done" /\ req[v].wrote = "completed"
        /\ req[w].op = "rerun" /\ req[w].pc = "done" /\ req[w].wrote = "completed"
        /\ req[w].job_id = req[v].job_id
        /\ req[v].now = today /\ req[w].now = today /\ today > Today0
        /\ \E row \in ResultRows(job_results, req[w].job_id) :
              /\ row.results_json.trends.total_reviews >= 1
              /\ row.results_json.total_reviews > row.results_json.trends.total_reviews

\* -- C13 --------------------------------------------------------------------
\* C13: every run that completes (first run or rerun) stores a rating
\* distribution whose five counters are non-negative and sum to the result's
\* total_reviews, which is the number of reviews the run processed (the
\* number of stored reviews of the job).
RatingSum(d) == d.rating_1 + d.rating_2 + d.rating_3 + d.rating_4 + d.rating_5

C13_RatingCountersSumToTotal ==
    [][\A w \in Workers :
          (req[w].pc = "analysis" /\ req'[w].wrote = "completed") =>
              /\ ResultRows(job_results', req[w].job_id) # {}
              /\ \A row \in ResultRows(job_results', req[w].job_id) :
                    LET d == row.results_json.rating_distribution
                    IN  /\ d.rating_1 >= 0 /\ d.rating_2 >= 0 /\ d.rating_3 >= 0
                        /\ d.rating_4 >= 0 /\ d.rating_5 >= 0
                        /\ RatingSum(d) = row.results_json.total_reviews
                        /\ row.results_json.total_reviews = Len(req[w].reviews)
                        /\ row.results_json.total_reviews
                               = Len(RowsOfJob(reviews, req[w].job_id))]_vars

C13_Witness ==
    \E w \in Workers :
        /\ req[w].op = "rerun" /\ req[w].pc = "done" /\ req[w].wrote = "completed"
        /\ \E row \in ResultRows(job_results, req[w].job_id) :
              /\ RatingSum(row.results_json.rating_distribution) = CHUNK_SIZE + 1
              /\ row.results_json.rating_distribution.rating_3 >= 1
              /\ row.results_json.rating_distribution.rating_4 >= 1

\* -- C14 --------------------------------------------------------------------
RatingReturned == call.fn = "parse_rating" /\ call.pc = "returned"
RatingForm(n) == IntStr(n) \o OutOfFiveStars

\* C14 as stated: parse_rating gives n for "<n> out of 5 stars" with n in
\* 1..5, and 3 for an n out of that range and for an absent string.
C14_ParseRating ==
    RatingReturned =>
        /\ \A n \in 1..5 : call.arg = RatingForm(n) => call.out = n
        /\ \A n \in ((0 - MaxRating)..MaxRating) \ (1..5) :
              call.arg = RatingForm(n) => call.out = 3
        /\ call.arg = NoStr => call.out = 3

\* C14 amended: parse_rating gives n for "<n> out of 5 stars" with n in
\* 1..5; for an n out of that range it gives the first run of digits clamped
\* to 1..5 (1 for 0, 5 for 6 and above, and for a negative n what it gives
\* for -n, the sign being no digit); for an absent string it gives 3.
C14_ParseRatingClamps ==
    RatingReturned =>
        /\ \A n \in 1..5 : call.arg = RatingForm(n) => call.out = n
        /\ call.arg = RatingForm(0) => call.out = 1
        /\ \A n \in 6..MaxRating : call.arg = RatingForm(n) => call.out = 5
        /\ \A n \in 1..MaxRating :
              call.arg = RatingForm(0 - n) => call.out = IF n > 5 THEN 5 ELSE n
        /\ call.arg = NoStr => call.out = 3

C14_Witness ==
    /\ RatingReturned
    /\ call.arg = RatingForm(MaxRating)
    /\ call.out = 5

\* -- C15 --------------------------------------------------------------------
\* C15: an upload of a file larger than MAX_FILE_SIZE is answered with a
\* client error (4xx) in the step that receives it, before parse_csv is
\* reached, and that step changes no table: no review and no job is stored
\* for it.  A file of at most MAX_FILE_SIZE is not rejected for its size.
C15_OversizeRejected ==
    [][\A w \in Workers : Takes(w, "upload") =>
          IF req'[w].size > MAX_FILE_SIZE
          THEN /\ req'[w].pc = "done"
               /\ req'[w].resp.code \in 400..499
               /\ req'[w].job_id = 0
               /\ req'[w].parse_raised = ""
               /\ UNCHANGED store
          ELSE /\ req'[w].pc = "parse"
               /\ Len(jobs') = Len(jobs) + 1]_vars

\* an oversized upload rejected while a job with stored reviews exists
C15_Witness ==
    \E w \in Workers :
        /\ req[w].op = "upload" /\ req[w].pc = "done"
        /\ req[w].size = MAX_FILE_SIZE + 1
        /\ req[w].resp.code = 400
        /\ Len(jobs) = 1 /\ reviews # <<>>

\* -- C16 --------------------------------------------------------------------
\* the reviews of a chunk that pass the pre-filter, in order: those sent
SentReviews(revs) ==
    LET Sent(r) == Min(r.review_content.len, ContentCap) >= MinContentLen
    IN  SelectSeq(revs, Sent)

RECURSIVE Flatten(_)
Flatten(ss) == IF ss = <<>> THEN <<>> ELSE Head(ss) \o Flatten(Tail(ss))

\* the mentions when the n-th item of the response goes with the n-th
\* review sent
MentionsBySentOrder(revs, chunk_id) ==
    LET data == ReviewData(revs, chunk_id, <<>>)
        sent == SentReviews(revs)
    IN  Flatten([n \in 1..Len(data) |-> ItemMentions(ModelItem(data[n]), sent[n])])

\* C16: when the model answers one item per review it was sent, in order,
\* extract_themes_from_chunk gives every mention the title and the fallback
\* snippet of the review the item is about: the n-th item goes with the
\* n-th review sent, and the declared review_id is carried as it came.
C16_PositionalOverFiltered ==
    (/\ call.fn = "extract_themes_from_chunk" /\ call.pc = "returned"
     /\ call.api_key /\ call.outcome = "per_review") =>
        /\ ~call.out.raised
        /\ call.out.mentions = MentionsBySentOrder(call.arg, call.chunk_id)

\* -- C17 --------------------------------------------------------------------
\* among the members S of a group: the titles, and the first member with
\* title t
TitlesIn(mentions, S) == {mentions[i].review_title : i \in S}
FirstWith(mentions, S, t) ==
    CHOOSE i \in S : /\ mentions[i].review_title = t
                     /\ \A j \in S : mentions[j].review_title = t => i <= j

\* the first n members of S
FirstMembers(S, n) == {i \in S : Cardinality({j \in S : j < i}) < n}

\* quotes are the first mentions of the first MaxQuotes titles among T that
\* occur in S, in order, each with the snippet of that mention
QuotesAreFirstOf(mentions, S, T, quotes) ==
    /\ Len(quotes) = Min(MaxQuotes, Cardinality(T))
    /\ \A k \in DOMAIN quotes :
          /\ quotes[k].title \in T
          /\ quotes[k].snippet
                 = mentions[FirstWith(mentions, S, quotes[k].title)].review_snippet
          /\ \A k2 \in DOMAIN quotes : k < k2 =>
                FirstWith(mentions, S, quotes[k].title)
                    < FirstWith(mentions, S, quotes[k2].title)
          /\ \A t \in T : (\A k2 \in DOMAIN quotes : quotes[k2].title # t) =>
                FirstWith(mentions, S, quotes[k].title) < FirstWith(mentions, S, t)

\* C17 as stated: the quotes of every summary are the first mentions of the
\* first two distinct titles among all mentions of its group (a missing
\* title being the title ""), so there are at most 2, none repeated, and 2
\* when the group has two distinct titles; count is the size of the group.
C17_QuotesOverWholeGroup ==
    AggregateReturned =>
        \A p \in Polarities : \A k \in DOMAIN call.out[p] :
            LET t == call.out[p][k]
                S == MembersOf(call.arg, t.theme_label, p)
            IN  /\ t.count = Cardinality(S)
                /\ Len(t.quotes) <= MaxQuotes
                /\ \A q1, q2 \in DOMAIN t.quotes :
                      q1 # q2 => t.quotes[q1].title # t.quotes[q2].title
                /\ Cardinality(TitlesIn(call.arg, S)) >= 2 => Len(t.quotes) = 2
                /\ QuotesAreFirstOf(call.arg, S, TitlesIn(call.arg, S), t.quotes)

\* C17 amended: the quotes of every summary are the first mentions of the
\* first two distinct non-empty titles among the first QuoteScan (10)
\* mentions of its group; mentions without a title are passed over.  So
\* there are at most 2, none repeated, and 2 when those first mentions have
\* two distinct non-empty titles; count is the size of the whole group.
C17_QuotesOverScannedTitled ==
    AggregateReturned =>
        \A p \in Polarities : \A k \in DOMAIN call.out[p] :
            LET t == call.out[p][k]
                S == MembersOf(call.arg, t.theme_label, p)
                scanned == FirstMembers(S, QuoteScan)
                titled == TitlesIn(call.arg, scanned) \ {NoTitle}
            IN  /\ t.count = Cardinality(S)
                /\ Len(t.quotes) <= MaxQuotes
                /\ \A q1, q2 \in DOMAIN t.quotes :
                      q1 # q2 => t.quotes[q1].title # t.quotes[q2].title
                /\ Cardinality(titled) >= 2 => Len(t.quotes) = 2
                /\ QuotesAreFirstOf(call.arg, scanned, titled, t.quotes)

\* a group of more than QuoteScan mentions whose second title comes after
\* the scanned ones, and so is not quoted
C17_Witness ==
    /\ AggregateReturned
    /\ \E k \in DOMAIN call.out.love :
          /\ call.out.love[k].count = QuoteScan + 1
          /\ Len(call.out.love[k].quotes) = 1
          /\ call.arg[QuoteScan + 1].review_title # call.arg[1].review_title
          /\ call.arg[QuoteScan + 1].review_title # NoTitle

\* -- C18 --------------------------------------------------------------------
\* the groups of polarity p, and where the grouping scan first meets label l
GroupsOf(mentions, p) == {l \in LabelsOf(mentions) : GroupCount(mentions, l, p) > 0}
FirstMet(mentions, l) ==
    CHOOSE i \in DOMAIN mentions :
        /\ normalize_theme_label(mentions[i].theme_label) = l
        /\ \A j \in DOMAIN mentions :
              normalize_theme_label(mentions[j].theme_label) = l => i <= j

\* C18: each returned list holds distinct non-empty-label groups of its
\* polarity with their counts (a mention of unrecognized polarity counting
\* under love, a mention of empty normalized label nowhere), in descending
\* order of count, groups of equal count in the order the grouping scan
\* first met their labels; it holds top_n of them, or all if there are
\* fewer, and no group left out has a larger count than one returned.
C18_Ranking ==
    AggregateReturned =>
        \A p \in Polarities :
            LET list == call.out[p]
                groups == GroupsOf(call.arg, p)
                listed == {list[k].theme_label : k \in DOMAIN list}
            IN  /\ Len(list) = Min(call.top_n, Cardinality(groups))
                /\ Len(list) <= call.top_n
                /\ Cardinality(listed) = Len(list)
                /\ listed \subseteq groups
                /\ <<>> \notin listed
                /\ \A k \in DOMAIN list :
                      /\ list[k].polarity = p
                      /\ list[k].count = GroupCount(call.arg, list[k].theme_label, p)
                      /\ \A l \in groups \ listed :
                            GroupCount(call.arg, l, p) <= list[k].count
                      /\ \A k2 \in DOMAIN list : k < k2 =>
                            /\ list[k].count >= list[k2].count
                            /\ list[k].count = list[k2].count =>
                                  FirstMet(call.arg, list[k].theme_label)
                                      < FirstMet(call.arg, list[k2].theme_label)

\* two love groups of equal count ranked, one of them made of a mention of
\* unrecognized polarity, after a mention whose label normalizes to nothing
C18_Witness ==
    /\ AggregateReturned
    /\ Len(call.out.love) = 2
    /\ call.out.love[1].count = call.out.love[2].count
    /\ normalize_theme_label(call.arg[1].theme_label) = <<>>
    /\ \E i \in DOMAIN call.arg :
          /\ call.arg[i].polarity \notin Polarities
          /\ normalize_theme_label(call.arg[i].theme_label) = call.out.love[1].theme_label

\* -- C19 --------------------------------------------------------------------
TrendReturned == call.fn = "trend_window" /\ call.pc = "returned"
Distance(a, b) == IF a >= b THEN a - b ELSE b - a

\* the reviews with a known date no more than WindowDays away from now
WithinWindow(revs, now) ==
    {i \in DOMAIN revs :
        /\ revs[i].review_date # NoDate
        /\ Distance(revs[i].review_date, now) <= WindowDays}

\* C19: the trend window counts exactly the reviews with a known date within
\* window_days of the current date, never a review without a date; positive
\* counts its ratings >= 4, negative its ratings <= 2, neutral the rest, and
\* the three add up to the window's review count.
C19_TrendWindow ==
    TrendReturned =>
        LET window == WithinWindow(call.arg, call.now)
            positive == {i \in window : call.arg[i].rating >= 4}
            negative == {i \in window : call.arg[i].rating <= 2}
        IN  /\ call.out.window_days = WindowDays
            /\ call.out.total_reviews = Cardinality(window)
            /\ call.out.positive_count = Cardinality(positive)
            /\ call.out.negative_count = Cardinality(negative)
            /\ call.out.neutral_count = Cardinality(window \ (positive \cup negative))
            /\ call.out.positive_count + call.out.negative_count
                   + call.out.neutral_count = call.out.total_reviews

====
